---- MODULE Spec2Model ----
(***************************************************************************)
(* A model of cli.py, the one-shot client of the Fallout CE command pipe:  *)
(* main reads the output file (the baseline), send_command opens the named *)
(* pipe with retries and writes the command line, wait_for_response polls  *)
(* the output file until it differs from the baseline and holds the marker *)
(* "command=<command>".  The game process at the other end of the pipe and *)
(* of the output file, the pipe's reader state and the monotonic clock are *)
(* the environment.                                                        *)
(*                                                                         *)
(* Texts are sequences of one-character strings.  One clock tick is 25 ms. *)
(***************************************************************************)
EXTENDS Integers, Sequences, FiniteSets, TLC

\* ------------------------------------------------------------------ bounds

\* --timeout values range over 0..MaxTimeout ticks.
MaxTimeout == 3

\* The monotonic clock moves freely up to MaxClock ticks after send_command's
\* entry; from then on it moves only while a sleep needs it to.
MaxClock == 3

\* time.sleep(0.05): two ticks of 25 ms.
SleepTicks == 2

\* ------------------------------------------------------------------- texts

NL == "\n"
CR == "\r"
\* A byte that is no valid UTF-8, and the replacement character U+FFFD.
BadByte == "0xFF"
Replacement == "U+FFFD"

\* str.strip() removes these from both ends.
Whitespace == {" ", NL, CR, "\t"}

\* " ".join(words)
RECURSIVE Join(_)
Join(words) ==
    IF Len(words) = 0 THEN <<>>
    ELSE IF Len(words) = 1 THEN words[1]
    ELSE words[1] \o <<" ">> \o Join(Tail(words))

RECURSIVE LStrip(_)
LStrip(s) ==
    IF Len(s) > 0 /\ s[1] \in Whitespace THEN LStrip(Tail(s)) ELSE s

RECURSIVE RStrip(_)
RStrip(s) ==
    IF Len(s) > 0 /\ s[Len(s)] \in Whitespace
    THEN RStrip(SubSeq(s, 1, Len(s) - 1))
    ELSE s

\* A command that is not trimmed.
StripNothing(s) == s

\* str.strip()
Strip(s) == RStrip(LStrip(s))

\* sub in text
Contains(sub, text) ==
    \E i \in 0..(Len(text) - Len(sub)) : SubSeq(text, i + 1, i + Len(sub)) = sub

\* text.endswith(suffix)
EndsWith(text, suffix) ==
    /\ Len(text) >= Len(suffix)
    /\ SubSeq(text, Len(text) - Len(suffix) + 1, Len(text)) = suffix

\* f"command={command}"
Marker(command) == <<"c", "o", "m", "m", "a", "n", "d", "=">> \o command

\* A payload without the newline that ends the line.
PayloadNoNewline(command) == command

\* (command + "\n").encode("utf-8")
Payload(command) == command \o <<NL>>

\* What open(path, "r", encoding="utf-8", errors="replace").read() makes of the
\* file's bytes: universal newlines turn "\r\n" and "\r" into "\n", and a byte
\* that does not decode becomes U+FFFD.
RECURSIVE Decode(_)
Decode(bytes) ==
    IF Len(bytes) = 0 THEN <<>>
    ELSE IF bytes[1] = CR
         THEN IF Len(bytes) > 1 /\ bytes[2] = NL
              THEN <<NL>> \o Decode(SubSeq(bytes, 3, Len(bytes)))
              ELSE <<NL>> \o Decode(Tail(bytes))
    ELSE IF bytes[1] = BadByte THEN <<Replacement>> \o Decode(Tail(bytes))
    ELSE <<bytes[1]>> \o Decode(Tail(bytes))


\* ------------------------------------------------------------------ inputs

DEFAULT_PIPE == "/tmp/fallout-cli-in"
DEFAULT_OUTPUT == "/tmp/fallout-cli-out.txt"

\* The argument lists main is run with (nargs="+": at least one word).
ArgLists ==
    { << <<" ", " ">>, <<"\t">> >>,
      << <<" ", "s">>, <<NL>> >>,
      << <<"s", NL, "2">> >> }

Timeouts == 0..MaxTimeout

\* ------------------------------------------------------------- environment

\* What os.open(pipe_path, O_WRONLY | O_NONBLOCK) meets: no such path (ENOENT),
\* a FIFO nobody reads (ENXIO), a FIFO with a reader, a path it may not open
\* (EACCES).
PipeStates == {"absent", "noreader", "reader", "denied"}

\* What open(output_path, "r") meets.
FileStates == {"absent", "present", "denied"}

\* The game's reply to one command line: the marker line, then a status line
\* whose value v depends on the game's state.
Reply(line, v) == Marker(line) \o <<NL>> \o <<v>> \o <<NL>>

\* The status value the game reports now; "0" is what it reported before.
ReplyValues == {"1"}

\* Command lines of earlier invocations that may still sit in the pipe.
EarlierLines == { <<"s">>, <<"s", "2">> }

\* Content another writer may leave in the output file: a byte that is no
\* UTF-8, a marker line ending in "\r\n", no newline at the end; and a marker
\* line followed by an empty line.
OtherContents ==
    { <<BadByte>> \o Marker(<<"s">>) \o <<CR, NL, "1">>,
      Marker(<<"s">>) \o <<NL, NL>> }

\* Content the output file may hold when main starts: the reply of an earlier
\* run, or what another writer left there.
InitialContents ==
    { Reply(<<"s">>, "0"),
      <<BadByte>> \o Marker(<<"s">>) \o <<CR, NL, "1">> }

\* ------------------------------------------------------------------- state

VARIABLES
    argv,        \* args.command
    timeout,     \* args.timeout, in ticks
    pc,          \* where main is
    command,     \* main's command
    previous,    \* main's previous: the baseline
    deadline,    \* the running call's deadline
    wakeAt,      \* when the running time.sleep(0.05) may return
    fdOpen,      \* whether send_command holds an open descriptor of the pipe
    response,    \* what wait_for_response returned
    exc,         \* the exception that ended the try block, or NoExc
    stdout,      \* text written to sys.stdout
    stderr,      \* lines printed to sys.stderr
    exitCode,    \* main's return value, or NoExit
    clock,       \* time.monotonic(), in ticks
    pipeState,   \* the pipe path, as os.open finds it
    pipe,        \* the lines the pipe's reader has yet to read
    fileState,   \* the output path, as open finds it
    fileBytes,   \* the output file's bytes
    extWriting,  \* the reply the game is in the middle of writing, or NoWrite
    log,         \* history: the I/O steps of this invocation, in order
    hist         \* history: facts about this invocation the claims speak of

vars == <<argv, timeout, pc, command, previous, deadline, wakeAt, fdOpen,
          response, exc, stdout, stderr, exitCode, clock, pipeState, pipe,
          fileState, fileBytes, extWriting, log, hist>>

clientVars == <<pc, command, previous, deadline, wakeAt, fdOpen, response,
                exc, stdout, stderr, exitCode>>

envVars == <<clock, pipeState, pipe, fileState, fileBytes, extWriting>>

NoExc == [type |-> "none", msg |-> ""]
NoExit == -1
NoWrite == [bytes |-> <<>>, mine |-> FALSE, active |-> FALSE]
NoText == <<"<none>">>

PcValues ==
    {"parse", "baseline", "send_entry", "open", "open_check", "open_sleep",
     "write", "wait_entry", "poll", "poll_check", "poll_sleep", "emit", "done"}


\* The lines a reader of the pipe gets out of the bytes written to it.
RECURSIVE Lines(_, _)
Lines(bytes, acc) ==
    IF Len(bytes) = 0 THEN (IF Len(acc) = 0 THEN <<>> ELSE <<acc>>)
    ELSE IF bytes[1] = NL THEN <<acc>> \o Lines(Tail(bytes), <<>>)
    ELSE Lines(Tail(bytes), Append(acc, bytes[1]))

\* Each line with whether it is the command this invocation was given (cmd).
Tagged(lines, cmd) ==
    [i \in 1..Len(lines) |-> [line |-> lines[i], mine |-> (lines[i] = cmd)]]

\* ------------------------------------------------------------------ errors

TimeoutError(msg) == [type |-> "TimeoutError", msg |-> msg]
PermissionError(path) ==
    [type |-> "PermissionError",
     msg |-> "[Errno 13] Permission denied: '" \o path \o "'"]
BrokenPipeError == [type |-> "BrokenPipeError", msg |-> "[Errno 32] Broken pipe"]

\* The errno of os.open on the pipe path, or "ok".
OpenResult(state) ==
    CASE state = "reader" -> "ok"
      [] state = "absent" -> "ENOENT"
      [] state = "noreader" -> "ENXIO"
      [] state = "denied" -> "EACCES"

\* A loop that retries whatever os.open raises.
RetryableAny(errno) == errno # "ok"

\* exc.errno in (errno.ENOENT, errno.ENXIO)
Retryable(errno) == errno \in {"ENOENT", "ENXIO"}

\* A check that gives up when the next sleep would pass the deadline.
ExpiredBeforeSleep(now, limit) == now + SleepTicks >= limit

\* A check that needs the clock to be past the deadline.
ExpiredStrictly(now, limit) == now > limit

\* time.monotonic() >= deadline
Expired(now, limit) == now >= limit

\* A wait that takes any text holding the marker, changed or not.
MatchesMarkerOnly(text, prev, cmd) == Contains(Marker(cmd), text)

\* text != previous and f"command={command}" in text
Matches(text, prev, cmd) == text # prev /\ Contains(Marker(cmd), text)

\* An output that appends a newline to every response.
EmittedAlwaysAppends(resp) == resp \o <<NL>>

\* What main writes to sys.stdout for a response.
Emitted(resp) == IF EndsWith(resp, <<NL>>) THEN resp ELSE resp \o <<NL>>

Logged(ev) == log' = Append(log, ev)

\* A handler that reports a failure of the send and carries on to the wait.
MainExceptCarriesOn(e) ==
    /\ exc' = e
    /\ stderr' = Append(stderr, "error: " \o e.msg)
    /\ exitCode' = IF pc \in {"open", "open_check", "write"} THEN exitCode ELSE 1
    /\ pc' = IF pc \in {"open", "open_check", "write"} THEN "wait_entry" ELSE "done"

\* main's except clauses: print(f"error: {exc}", file=sys.stderr); return 1
MainExcept(e) ==
    /\ exc' = e
    /\ stderr' = Append(stderr, "error: " \o e.msg)
    /\ exitCode' = 1
    /\ pc' = "done"

\* An exception no except clause of main catches: the interpreter prints the
\* traceback and main returns nothing.
Uncaught(e) ==
    /\ exc' = e
    /\ stderr' = Append(stderr, "Traceback (most recent call last): " \o e.msg)
    /\ exitCode' = NoExit
    /\ pc' = "done"


\* -------------------------------------------------------------------- Init

InitHist ==
    [ raisedIn   |-> "none",   \* the step whose exception ended the run
      callTime   |-> 0,        \* the clock at the running call's entry
      readerKept |-> FALSE,    \* send_command is running or has just returned,
                               \* and a reader has been attached to the pipe
                               \* ever since it was entered
      changed    |-> FALSE,    \* the file was touched after the baseline read
      placed     |-> FALSE,    \* the file's content was put there after
                               \* send_command returned and before the wait's
                               \* deadline, and left alone since
      polled     |-> FALSE,    \* the last poll read the file's present content
      exact      |-> TRUE,     \* since the call's entry, time passed only in
                               \* sleeps, and each lasted SleepTicks exactly
      delivered  |-> <<>>,     \* the payloads this invocation wrote to the pipe
      writer     |-> "other",  \* what the file's content is: the game's reply
                               \* to this invocation's command line ("mine"),
                               \* its reply to another line ("earlier"), or
                               \* anything else ("other")
      respWriter |-> "none",   \* the same of the content that was returned
      foreign    |-> FALSE ]   \* since the baseline read, content holding the
                               \* marker was written that is no reply to this
                               \* invocation's line

Init ==
    /\ argv \in ArgLists
    /\ timeout \in Timeouts
    /\ pc = "parse"
    /\ command = <<>>
    /\ previous = NoText
    /\ deadline = 0
    /\ wakeAt = 0
    /\ fdOpen = FALSE
    /\ response = NoText
    /\ exc = NoExc
    /\ stdout = <<>>
    /\ stderr = <<>>
    /\ exitCode = NoExit
    /\ clock = 0
    /\ pipeState \in PipeStates
    /\ pipe \in {<<>>} \cup {Tagged(<<l>>, <<>>) : l \in EarlierLines}
    /\ \/ fileState = "absent" /\ fileBytes = <<>>
       \/ fileState = "present" /\ fileBytes \in InitialContents
       \/ fileState = "denied" /\ fileBytes \in InitialContents
    /\ extWriting = NoWrite
    /\ log = <<>>
    /\ hist = InitHist

\* --------------------------------------------------------------------- main

\* cli.py 65-68
MainParse ==
    /\ pc = "parse"
    /\ command' = Strip(Join(argv))
    /\ IF command' = <<>>
       THEN /\ stderr' = Append(stderr, "error: empty command")
            /\ exitCode' = 2
            /\ pc' = "done"
       ELSE /\ pc' = "baseline"
            /\ UNCHANGED <<stderr, exitCode>>
    /\ UNCHANGED <<argv, timeout, previous, deadline, wakeAt, fdOpen, response,
                   exc, stdout, envVars, log, hist>>

\* cli.py 70-73
MainBaseline ==
    /\ pc = "baseline"
    /\ Logged("read_out")
    /\ CASE fileState = "present" ->
              /\ previous' = Decode(fileBytes)
              /\ pc' = "send_entry"
              /\ UNCHANGED <<exc, stderr, exitCode, hist>>
         [] fileState = "absent" ->
              /\ previous' = <<>>
              /\ pc' = "send_entry"
              /\ UNCHANGED <<exc, stderr, exitCode, hist>>
         [] fileState = "denied" ->
              /\ Uncaught(PermissionError(DEFAULT_OUTPUT))
              /\ hist' = [hist EXCEPT !.raisedIn = "baseline"]
              /\ UNCHANGED previous
    /\ UNCHANGED <<argv, timeout, command, deadline, wakeAt, fdOpen, response,
                   stdout, envVars>>

\* cli.py 85-88
MainEmit ==
    /\ pc = "emit"
    /\ stdout' = stdout \o Emitted(response)
    /\ Logged("stdout")
    /\ exitCode' = 0
    /\ pc' = "done"
    /\ UNCHANGED <<argv, timeout, command, previous, deadline, wakeAt, fdOpen,
                   response, exc, stderr, envVars, hist>>

\* ------------------------------------------------------------- send_command

\* cli.py 15-16
SendEntry ==
    /\ pc = "send_entry"
    /\ deadline' = clock + timeout
    /\ Logged("s_clock")
    /\ hist' = [hist EXCEPT !.exact = TRUE, !.callTime = clock,
                            !.readerKept = (pipeState = "reader")]
    /\ pc' = "open"
    /\ UNCHANGED <<argv, timeout, command, previous, wakeAt, fdOpen, response,
                   exc, stdout, stderr, exitCode, envVars>>

\* cli.py 19-24
SendOpen ==
    /\ pc = "open"
    /\ LET errno == OpenResult(pipeState) IN
       IF errno = "ok"
       THEN /\ fdOpen' = TRUE
            /\ Logged("s_open_ok")
            /\ pc' = "write"
            /\ UNCHANGED <<exc, stderr, exitCode, hist>>
       ELSE IF Retryable(errno)
       THEN /\ Logged("s_open_retry")
            /\ pc' = "open_check"
            /\ UNCHANGED <<fdOpen, exc, stderr, exitCode, hist>>
       ELSE /\ Logged("s_open_fatal")
            /\ MainExcept(PermissionError(DEFAULT_PIPE))
            /\ hist' = [hist EXCEPT !.raisedIn = "send"]
            /\ UNCHANGED fdOpen
    /\ UNCHANGED <<argv, timeout, command, previous, deadline, wakeAt, response,
                   stdout, envVars>>

\* cli.py 25-27
SendCheck ==
    /\ pc = "open_check"
    /\ Logged("s_clock")
    /\ IF Expired(clock, deadline)
       THEN /\ MainExcept(TimeoutError("timed out waiting for pipe: " \o DEFAULT_PIPE))
            /\ hist' = [hist EXCEPT !.raisedIn = "send"]
            /\ UNCHANGED wakeAt
       ELSE /\ wakeAt' = clock + SleepTicks
            /\ pc' = "open_sleep"
            /\ UNCHANGED <<exc, stderr, exitCode, hist>>
    /\ UNCHANGED <<argv, timeout, command, previous, deadline, fdOpen, response,
                   stdout, envVars>>

\* cli.py 27: time.sleep(0.05) returns
SendWake ==
    /\ pc = "open_sleep"
    /\ clock >= wakeAt
    /\ Logged("s_sleep")
    /\ pc' = "open"
    /\ UNCHANGED <<argv, timeout, command, previous, deadline, wakeAt, fdOpen,
                   response, exc, stdout, stderr, exitCode, envVars, hist>>

\* A write without the with statement: a failure leaves the descriptor open.
SendWriteLeaksOnError ==
    /\ pc = "write"
    /\ fdOpen
    /\ \/ /\ pipeState # "noreader"
          /\ fdOpen' = FALSE
          /\ pipe' = pipe \o Tagged(Lines(Payload(command), <<>>), command)
          /\ Logged("s_write")
          /\ hist' = [hist EXCEPT !.delivered = Append(@, Payload(command))]
          /\ pc' = "wait_entry"
          /\ UNCHANGED <<exc, stderr, exitCode>>
       \/ /\ pipeState # "reader"
          /\ Logged("s_write_fatal")
          /\ MainExcept(BrokenPipeError)
          /\ hist' = [hist EXCEPT !.raisedIn = "send"]
          /\ UNCHANGED <<pipe, fdOpen>>
    /\ UNCHANGED <<argv, timeout, command, previous, deadline, wakeAt, response,
                   stdout, clock, pipeState, fileState, fileBytes, extWriting>>

\* cli.py 29-31.  The descriptor is non-blocking; the write reaches the reader
\* when one is attached and fails with EPIPE when none is.  When the path has
\* been removed or closed to us since the open, the reader may or may not
\* still be there.
SendWrite ==
    /\ pc = "write"
    /\ fdOpen
    /\ fdOpen' = FALSE
    /\ \/ /\ pipeState # "noreader"
          /\ pipe' = pipe \o Tagged(Lines(Payload(command), <<>>), command)
          /\ Logged("s_write")
          /\ hist' = [hist EXCEPT !.delivered = Append(@, Payload(command))]
          /\ pc' = "wait_entry"
          /\ UNCHANGED <<exc, stderr, exitCode>>
       \/ /\ pipeState # "reader"
          /\ Logged("s_write_fatal")
          /\ MainExcept(BrokenPipeError)
          /\ hist' = [hist EXCEPT !.raisedIn = "send"]
          /\ UNCHANGED pipe
    /\ UNCHANGED <<argv, timeout, command, previous, deadline, wakeAt, response,
                   stdout, clock, pipeState, fileState, fileBytes, extWriting>>


\* -------------------------------------------------------- wait_for_response

\* A wait that goes on under the deadline send_command computed.
WaitEntryKeepsDeadline ==
    /\ pc = "wait_entry"
    /\ Logged("w_clock")
    /\ hist' = [hist EXCEPT !.exact = TRUE, !.readerKept = FALSE]
    /\ pc' = "poll"
    /\ UNCHANGED <<argv, timeout, command, previous, deadline, wakeAt, fdOpen,
                   response, exc, stdout, stderr, exitCode, envVars>>

\* cli.py 40
WaitEntry ==
    /\ pc = "wait_entry"
    /\ deadline' = clock + timeout
    /\ Logged("w_clock")
    /\ hist' = [hist EXCEPT !.exact = TRUE, !.callTime = clock,
                            !.readerKept = FALSE]
    /\ pc' = "poll"
    /\ UNCHANGED <<argv, timeout, command, previous, wakeAt, fdOpen, response,
                   exc, stdout, stderr, exitCode, envVars>>

\* A poll that takes the text it read for the new baseline when it does not
\* match.
WaitPollMovesBaseline ==
    /\ pc = "poll"
    /\ Logged("w_poll")
    /\ CASE fileState = "present" ->
              LET text == Decode(fileBytes) IN
              /\ IF Matches(text, previous, command)
                 THEN /\ response' = text
                      /\ pc' = "emit"
                      /\ hist' = [hist EXCEPT !.respWriter = hist.writer,
                                              !.polled = TRUE]
                      /\ UNCHANGED previous
                 ELSE /\ pc' = "poll_check"
                      /\ previous' = text
                      /\ hist' = [hist EXCEPT !.polled = TRUE]
                      /\ UNCHANGED response
              /\ UNCHANGED <<exc, stderr, exitCode>>
         [] fileState = "absent" ->
              /\ pc' = "poll_check"
              /\ UNCHANGED <<previous, response, exc, stderr, exitCode, hist>>
         [] fileState = "denied" ->
              /\ MainExcept(PermissionError(DEFAULT_OUTPUT))
              /\ hist' = [hist EXCEPT !.raisedIn = "wait"]
              /\ UNCHANGED <<previous, response>>
    /\ UNCHANGED <<argv, timeout, command, deadline, wakeAt, fdOpen, stdout,
                   envVars>>

\* A poll that takes every failure of the read for "not ready".
WaitPollCatchesAnyError ==
    /\ pc = "poll"
    /\ Logged("w_poll")
    /\ LET hit == /\ fileState = "present"
                  /\ Matches(Decode(fileBytes), previous, command) IN
       /\ response' = IF hit THEN Decode(fileBytes) ELSE response
       /\ pc' = IF hit THEN "emit" ELSE "poll_check"
       /\ hist' = IF fileState = "present"
                  THEN [hist EXCEPT !.polled = TRUE,
                                    !.respWriter = IF hit THEN hist.writer ELSE @]
                  ELSE hist
    /\ UNCHANGED <<argv, timeout, command, previous, deadline, wakeAt, fdOpen,
                   exc, stdout, stderr, exitCode, envVars>>

\* cli.py 42-47
WaitPoll ==
    /\ pc = "poll"
    /\ Logged("w_poll")
    /\ CASE fileState = "present" ->
              LET text == Decode(fileBytes) IN
              /\ IF Matches(text, previous, command)
                 THEN /\ response' = text
                      /\ pc' = "emit"
                      /\ hist' = [hist EXCEPT !.respWriter = hist.writer,
                                              !.polled = TRUE]
                 ELSE /\ pc' = "poll_check"
                      /\ hist' = [hist EXCEPT !.polled = TRUE]
                      /\ UNCHANGED response
              /\ UNCHANGED <<exc, stderr, exitCode>>
         [] fileState = "absent" ->
              /\ pc' = "poll_check"
              /\ UNCHANGED <<response, exc, stderr, exitCode, hist>>
         [] fileState = "denied" ->
              /\ MainExcept(PermissionError(DEFAULT_OUTPUT))
              /\ hist' = [hist EXCEPT !.raisedIn = "wait"]
              /\ UNCHANGED response
    /\ UNCHANGED <<argv, timeout, command, previous, deadline, wakeAt, fdOpen,
                   stdout, envVars>>

\* cli.py 49-54
WaitCheck ==
    /\ pc = "poll_check"
    /\ Logged("w_clock")
    /\ IF Expired(clock, deadline)
       THEN /\ MainExcept(TimeoutError("timed out waiting for response file update: "
                                       \o DEFAULT_OUTPUT))
            /\ hist' = [hist EXCEPT !.raisedIn = "wait"]
            /\ UNCHANGED wakeAt
       ELSE /\ wakeAt' = clock + SleepTicks
            /\ pc' = "poll_sleep"
            /\ UNCHANGED <<exc, stderr, exitCode, hist>>
    /\ UNCHANGED <<argv, timeout, command, previous, deadline, fdOpen, response,
                   stdout, envVars>>

\* A loop that checks the deadline right after the sleep, before it polls.
WaitWakeChecksFirst ==
    /\ pc = "poll_sleep"
    /\ clock >= wakeAt
    /\ Logged("w_sleep")
    /\ pc' = "poll_check"
    /\ UNCHANGED <<argv, timeout, command, previous, deadline, wakeAt, fdOpen,
                   response, exc, stdout, stderr, exitCode, envVars, hist>>

\* cli.py 52: time.sleep(0.05) returns
WaitWake ==
    /\ pc = "poll_sleep"
    /\ clock >= wakeAt
    /\ Logged("w_sleep")
    /\ pc' = "poll"
    /\ UNCHANGED <<argv, timeout, command, previous, deadline, wakeAt, fdOpen,
                   response, exc, stdout, stderr, exitCode, envVars, hist>>

\* -------------------------------------------------------------- environment

Sleeping == pc \in {"open_sleep", "poll_sleep"}

\* Init is the state main's first I/O step, the baseline read, finds; from
\* then on the environment moves until main has returned.
Running == pc \notin {"parse", "baseline", "done"}

\* The client first reads the clock at send_command's entry: 0 is that moment
\* at the latest.
Timed == pc \notin {"parse", "baseline", "send_entry", "done"}

\* A clock that may stand still for as long as a sleep lasts.
TickNotInSleep ==
    /\ Timed
    /\ clock < MaxClock
    /\ ~Sleeping
    /\ clock' = clock + 1
    /\ hist' = [hist EXCEPT !.exact = FALSE]
    /\ UNCHANGED <<argv, timeout, clientVars, pipeState, pipe, fileState,
                   fileBytes, extWriting, log>>

\* The monotonic clock advances by one tick.  It may do so between any two
\* steps of the client; past MaxClock the model lets it advance only as far
\* as a running sleep needs.
Tick ==
    /\ Timed
    /\ clock < MaxClock \/ (Sleeping /\ clock < wakeAt)
    /\ clock' = clock + 1
    /\ hist' = [hist EXCEPT !.exact = @ /\ Sleeping /\ clock < wakeAt]
    /\ UNCHANGED <<argv, timeout, clientVars, pipeState, pipe, fileState,
                   fileBytes, extWriting, log>>

\* The pipe path appears, disappears, gains or loses its reader, or changes
\* its permissions.  Once send_command has returned the client never looks at
\* the path again.
PipeChange ==
    /\ pc \in {"baseline", "send_entry", "open", "open_check", "open_sleep", "write"}
    /\ \E s \in PipeStates \ {pipeState} : pipeState' = s
    /\ hist' = [hist EXCEPT !.readerKept = FALSE]
    /\ UNCHANGED <<argv, timeout, clientVars, clock, pipe, fileState, fileBytes,
                   extWriting, log>>

\* Whether content written now counts as foreign to this invocation.
Foreign(bytes, mine) ==
    /\ pc \notin {"parse", "baseline"}
    /\ ~mine
    /\ Contains(Marker(command), Decode(bytes))

\* Whether a write made now falls after send_command's return and before the
\* wait's deadline.
InTime ==
    \/ pc = "wait_entry"
    \/ pc \in {"poll", "poll_check", "poll_sleep"} /\ clock < deadline

Touched == pc \notin {"parse", "baseline"}

Wrote(bytes, mine, game) ==
    hist' = [hist EXCEPT !.writer = IF ~game THEN "other"
                                    ELSE IF mine THEN "mine" ELSE "earlier",
                         !.foreign = @ \/ Foreign(bytes, mine),
                         !.changed = @ \/ Touched,
                         !.placed = InTime,
                         !.polled = FALSE]

\* The positions at which a reply under way may have been flushed.
Cuts(bytes) == {k \in 1..Len(bytes) : bytes[k] = NL}

\* The game reads the next command line from the pipe and opens the output
\* file for its reply, truncating it.
ExtTake ==
    /\ Running
    /\ pipeState = "reader"
    /\ pipe # <<>>
    /\ ~extWriting.active
    /\ \E v \in ReplyValues :
         extWriting' = [bytes |-> Reply(Head(pipe).line, v),
                        mine |-> Head(pipe).mine, active |-> TRUE]
    /\ pipe' = Tail(pipe)
    /\ fileState' = IF fileState = "absent" THEN "present" ELSE fileState
    /\ fileBytes' = <<>>
    /\ Wrote(<<>>, Head(pipe).mine, TRUE)
    /\ UNCHANGED <<argv, timeout, clientVars, clock, pipeState, log>>

\* The game writes more of its reply; the last piece completes it.
ExtWrite ==
    /\ Running
    /\ extWriting.active
    /\ \E k \in Cuts(extWriting.bytes) :
         /\ k > Len(fileBytes)
         /\ fileBytes' = SubSeq(extWriting.bytes, 1, k)
         /\ extWriting' = IF k = Len(extWriting.bytes) THEN NoWrite ELSE extWriting
    /\ Wrote(fileBytes', extWriting.mine, TRUE)
    /\ UNCHANGED <<argv, timeout, clientVars, clock, pipeState, pipe, fileState, log>>

\* The output file is rewritten for a reason that is none of this invocation's.
ExtOther ==
    /\ Running
    /\ ~extWriting.active
    /\ \E b \in OtherContents \ {fileBytes} : fileBytes' = b
    /\ fileState' = IF fileState = "absent" THEN "present" ELSE fileState
    /\ Wrote(fileBytes', FALSE, FALSE)
    /\ UNCHANGED <<argv, timeout, clientVars, clock, pipeState, pipe, extWriting, log>>

\* The output file is removed, or closed to the client.
ExtFileState ==
    /\ Running
    /\ ~extWriting.active
    /\ fileState = "present"
    /\ \/ /\ fileState' = "absent"
          /\ fileBytes' = <<>>
          /\ Wrote(<<>>, FALSE, FALSE)
       \/ /\ fileState' = "denied"
          /\ hist' = [hist EXCEPT !.changed = @ \/ Touched, !.placed = FALSE,
                                  !.polled = FALSE]
          /\ UNCHANGED fileBytes
    /\ UNCHANGED <<argv, timeout, clientVars, clock, pipeState, pipe, extWriting, log>>

\* --------------------------------------------------------------------- Spec

Client ==
    \/ MainParse
    \/ MainBaseline
    \/ SendEntry
    \/ SendOpen
    \/ SendCheck
    \/ SendWake
    \/ SendWrite
    \/ WaitEntry
    \/ WaitPoll
    \/ WaitCheck
    \/ WaitWake
    \/ MainEmit

Environment ==
    \/ Tick
    \/ PipeChange
    \/ ExtTake
    \/ ExtWrite
    \/ ExtOther
    \/ ExtFileState

Next == Client \/ Environment

Spec == Init /\ [][Next]_vars

\* The interpreter keeps running main, and the monotonic clock advances while
\* a time.sleep is under way.
FairSpec == Spec /\ WF_vars(Client) /\ WF_vars(Tick /\ Sleeping)

TypeOK ==
    /\ pc \in PcValues
    /\ exitCode \in {NoExit, 0, 1, 2}
    /\ fileState \in FileStates
    /\ pipeState \in PipeStates
    /\ fdOpen \in BOOLEAN

\* ------------------------------------------------------------------ claims

InLog(ev) == \E i \in 1..Len(log) : log[i] = ev

SendTimedOut == hist.raisedIn = "send" /\ exc.type = "TimeoutError"
WaitTimedOut == hist.raisedIn = "wait" /\ exc.type = "TimeoutError"

\* C1: wait_for_response returns a text only at a poll, and then the text is
\* what that poll read from the file, differs from the baseline and holds
\* "command=" + command; with a baseline that holds the marker and a file
\* nobody touches after the baseline read, a wait that ends ends in TimedOut.
C1_ReturnsOnlyChangedMarked ==
    /\ [][response' # response =>
            /\ pc = "poll"
            /\ fileState = "present"
            /\ response' = Decode(fileBytes)
            /\ response' # previous
            /\ Contains(Marker(command), response')]_vars
    /\ []((/\ pc = "done"
           /\ InLog("w_poll")
           /\ ~hist.changed
           /\ Contains(Marker(command), previous))
          => (WaitTimedOut /\ response = NoText))

\* A response is returned although the baseline itself held the marker.
C1_Witness ==
    /\ pc = "emit"
    /\ Contains(Marker(command), previous)
    /\ response # previous

\* C2 as claimed, of the content the game wrote: a reply of the game that is
\* returned is its reply to the command line this invocation wrote to the pipe.
C2_ReplyToThisInvocation ==
    (response # NoText /\ hist.respWriter # "other") => hist.respWriter = "mine"

\* C2 amended: what is returned is the game's reply to this invocation's
\* command line provided nothing else put content holding the marker into the
\* file after the baseline read.
C2_ReplyUnlessForeignMarker ==
    (response # NoText /\ ~hist.foreign) => hist.respWriter = "mine"

\* The reply to this invocation's line is returned while an earlier line was
\* answered after the baseline read.
C2_Witness ==
    /\ pc = "emit"
    /\ hist.respWriter = "mine"
    /\ ~hist.foreign
    /\ hist.changed
    /\ Contains(Marker(command), previous)

\* C3: while a reader has been attached since send_command's entry, the call
\* never fails and never retries, its next step is always enabled, it is over
\* after the open and the write, and what it has written to the pipe when it
\* returns is the command followed by one newline, once.
C3_SendsWithReaderAttached ==
    hist.readerKept =>
        /\ hist.raisedIn = "none"
        /\ pc \in {"open", "write", "wait_entry"}
        /\ pc = "open" =>
             /\ log = <<"read_out", "s_clock">>
             /\ hist.delivered = <<>>
             /\ ENABLED SendOpen
        /\ pc = "write" =>
             /\ log = <<"read_out", "s_clock", "s_open_ok">>
             /\ hist.delivered = <<>>
             /\ ENABLED SendWrite
        /\ pc = "wait_entry" =>
             /\ log = <<"read_out", "s_clock", "s_open_ok", "s_write">>
             /\ hist.delivered = << command \o <<NL>> >>

\* send_command has returned with a reader attached throughout and no time to
\* spare.
C3_Witness ==
    /\ pc = "wait_entry"
    /\ hist.readerKept
    /\ timeout = 0
    /\ Len(command) > 1

\* C4 as claimed: a send that times out does so no earlier than callTime +
\* timeout and no later than one polling interval after it, with a message
\* naming the pipe path.
C4_TimeoutWithinOneInterval ==
    SendTimedOut =>
        /\ clock >= hist.callTime + timeout
        /\ clock <= hist.callTime + timeout + SleepTicks
        /\ exc.msg = "timed out waiting for pipe: /tmp/fallout-cli-in"

\* C4 amended: a send none of whose opens succeeded or failed fatally ends in
\* the timeout error naming the pipe path, raised no earlier than callTime +
\* timeout; it is raised no later than one polling interval after that when
\* every sleep lasted 50 ms exactly and no time passed outside the sleeps.
C4_TimeoutAfterDeadline ==
    /\ (hist.raisedIn = "send" /\ ~InLog("s_open_ok") /\ ~InLog("s_open_fatal"))
           => SendTimedOut
    /\ SendTimedOut =>
           /\ exc.msg = "timed out waiting for pipe: /tmp/fallout-cli-in"
           /\ ~InLog("s_open_ok")
           /\ clock >= hist.callTime + timeout
           /\ hist.exact => clock <= hist.callTime + timeout + SleepTicks

\* The send times out after exact sleeps, past a deadline that fell inside a
\* sleep.
C4_Witness ==
    /\ SendTimedOut
    /\ hist.exact
    /\ clock > hist.callTime + timeout
    /\ timeout > 0

\* C5: an open that fails leads to the deadline check only for ENOENT and
\* ENXIO; any other failure ends the run in that very step with the error
\* os.open raised, and nothing is logged after it: no clock read, no sleep,
\* no open.
C5_OnlyNotReadyRetried ==
    /\ [][(pc = "open" /\ pc' # "open") =>
            LET errno == OpenResult(pipeState) IN
            \/ errno = "ok" /\ pc' = "write"
            \/ errno \in {"ENOENT", "ENXIO"} /\ pc' = "open_check"
            \/ /\ errno \notin {"ok", "ENOENT", "ENXIO"}
               /\ pc' = "done"
               /\ exc' = PermissionError(DEFAULT_PIPE)
               /\ hist'.raisedIn = "send"
               /\ log' = Append(log, "s_open_fatal")]_vars
    /\ [](InLog("s_open_fatal") =>
            /\ pc = "done"
            /\ log[Len(log)] = "s_open_fatal"
            /\ exc = PermissionError(DEFAULT_PIPE)
            /\ exitCode = 1)

\* An open fails fatally after a retry, with time left before the deadline.
C5_Witness ==
    /\ InLog("s_open_fatal")
    /\ InLog("s_sleep")
    /\ clock < deadline

Count(ev) == Cardinality({i \in 1..Len(log) : log[i] = ev})

\* The file holds, readably, a text that differs from the baseline and holds
\* the marker.
MatchInFile ==
    /\ fileState = "present"
    /\ Decode(fileBytes) # previous
    /\ Contains(Marker(command), Decode(fileBytes))

\* C6 as claimed: a wait does not time out when matching content was put into
\* the file after send_command returned and before the wait's deadline, and
\* left there.
C6_ReturnsContentPlacedInTime == WaitTimedOut => ~(hist.placed /\ MatchInFile)

\* C6 amended: matching content that a poll reads is returned by that poll,
\* whole and as read; matching content placed in time and left in place is
\* missed only when time passed outside the sleeps, that is between the read
\* of the last poll and the deadline check after it.
C6_ReturnsContentSeenByPoll ==
    /\ (hist.polled /\ MatchInFile) =>
           /\ pc \in {"emit", "done"}
           /\ response = Decode(fileBytes)
           /\ pc = "done" => (exitCode = 0 /\ exc = NoExc)
    /\ (WaitTimedOut /\ hist.placed /\ MatchInFile) => (~hist.exact /\ ~hist.polled)

\* The game's full reply to this invocation's line, placed before the
\* deadline, is returned after at least one sleep.
C6_Witness ==
    /\ pc = "emit"
    /\ hist.placed
    /\ hist.polled
    /\ hist.respWriter = "mine"
    /\ response = Reply(command, "1")
    /\ InLog("w_sleep")

\* C7: with timeout 0 the wait never sleeps and polls at most once; when the
\* file has not been touched since the baseline read it ends in TimedOut after
\* exactly one poll.
C7_ZeroTimeoutOnePoll ==
    (timeout = 0 /\ InLog("w_clock")) =>
        /\ ~InLog("w_sleep")
        /\ pc # "poll_sleep"
        /\ Count("w_poll") <= 1
        /\ ~hist.changed =>
             /\ pc \in {"poll", "poll_check", "done"}
             /\ pc = "done" => (WaitTimedOut /\ Count("w_poll") = 1
                                /\ Count("w_clock") = 2)

\* A wait with timeout 0 on an untouched file has timed out.
C7_Witness ==
    /\ timeout = 0
    /\ WaitTimedOut
    /\ ~hist.changed
    /\ Contains(Marker(command), previous)

\* C8: once send_command has failed main is over with exit code 1, the error
\* on standard error and nothing on standard output; the wait was never
\* entered and the output file was read once, for the baseline.
C8_SendFailureSkipsWait ==
    hist.raisedIn = "send" =>
        /\ pc = "done"
        /\ exitCode = 1
        /\ exc.type \in {"TimeoutError", "PermissionError", "BrokenPipeError"}
        /\ stderr = <<"error: " \o exc.msg>>
        /\ stdout = <<>>
        /\ response = NoText
        /\ ~InLog("w_clock")
        /\ ~InLog("w_poll")
        /\ Count("read_out") = 1

\* The write to the pipe has failed after a retry.
C8_Witness ==
    /\ hist.raisedIn = "send"
    /\ exc.type = "BrokenPipeError"
    /\ InLog("s_sleep")

AllBlank(words) ==
    \A i \in 1..Len(words) : \A j \in 1..Len(words[i]) : words[i][j] \in Whitespace

\* C9: when the words hold nothing but whitespace, main is over right after
\* parsing, with exit code 2 and "error: empty command" on standard error,
\* and has done no I/O on the pipe or the output file; no other argument list
\* ends in exit code 2.
C9_EmptyCommandNoIO ==
    /\ (AllBlank(argv) /\ pc # "parse") =>
           /\ pc = "done"
           /\ exitCode = 2
           /\ stderr = <<"error: empty command">>
           /\ stdout = <<>>
           /\ log = <<>>
           /\ ~fdOpen
           /\ previous = NoText
    /\ exitCode = 2 => AllBlank(argv)

\* main has returned 2 for two blank words.
C9_Witness ==
    /\ exitCode = 2
    /\ Len(argv) = 2
    /\ Len(Join(argv)) > 2

\* C10: main, given a command, ends either with exit code 0, the response on
\* standard output and no error, or with exit code 1 and the error's message
\* on standard error.
C10_EveryFailureExitsOne ==
    (pc = "done" /\ command # <<>>) =>
        \/ /\ exitCode = 0
           /\ exc = NoExc
           /\ response # NoText
           /\ stderr = <<>>
        \/ /\ exitCode = 1
           /\ exc # NoExc
           /\ stderr = <<"error: " \o exc.msg>>
           /\ stdout = <<>>

\* C11: wait_for_response sets its deadline to the clock at its own entry plus
\* the timeout, whatever deadline send_command ran under and however much time
\* the send took; the deadline stays that throughout the wait, and the wait
\* does not time out before it.
C11_WaitDeadlineFromOwnEntry ==
    /\ [][(pc = "wait_entry" /\ pc' # "wait_entry") =>
            /\ pc' = "poll"
            /\ deadline' = clock + timeout
            /\ hist'.callTime = clock]_vars
    /\ []((InLog("w_clock") /\ hist.raisedIn # "send") =>
            /\ deadline = hist.callTime + timeout
            /\ WaitTimedOut => clock >= hist.callTime + timeout)

\* The send succeeded after a retry and before its deadline, and the wait
\* times out a full timeout after its own entry, later than one timeout after
\* send_command's entry (clock 0).
C11_Witness ==
    /\ WaitTimedOut
    /\ InLog("s_sleep")
    /\ hist.callTime > 0
    /\ hist.callTime < timeout
    /\ clock >= hist.callTime + timeout
    /\ clock > timeout

\* The positions of the newlines in a text.
Newlines(text) == {i \in 1..Len(text) : text[i] = NL}

\* C12: every payload written to the pipe holds exactly one newline, and it is
\* the payload's last character.
C12_PayloadOneNewline ==
    \A i \in 1..Len(hist.delivered) :
        Newlines(hist.delivered[i]) = {Len(hist.delivered[i])}

\* The number of newlines a text ends in.
RECURSIVE TrailingNewlines(_)
TrailingNewlines(text) ==
    IF Len(text) > 0 /\ text[Len(text)] = NL
    THEN 1 + TrailingNewlines(SubSeq(text, 1, Len(text) - 1))
    ELSE 0

\* C13 as claimed: on success standard output begins with the response,
\* unchanged, and ends in exactly one newline.
C13_EmitsExactlyOneTrailingNewline ==
    exitCode = 0 =>
        /\ SubSeq(stdout, 1, Len(response)) = response
        /\ TrailingNewlines(stdout) = 1

\* C13 amended: on success standard output is the response when the response
\* ends in a newline and the response followed by one newline when it does
\* not; it ends in exactly one newline when the response ends in at most one.
C13_EmitsResponseNewlineEnded ==
    /\ stdout # <<>> => exitCode = 0
    /\ exitCode = 0 =>
        /\ response # NoText
        /\ stdout = IF TrailingNewlines(response) > 0
                    THEN response ELSE response \o <<NL>>
        /\ TrailingNewlines(stdout) >= 1
        /\ TrailingNewlines(response) <= 1 => TrailingNewlines(stdout) = 1

\* A response that does not end in a newline has been emitted.
C13_Witness ==
    /\ exitCode = 0
    /\ TrailingNewlines(response) = 0
    /\ stdout # response

\* C14: a poll that finds no output file raises nothing and goes on to the
\* deadline check; a poll whose read fails otherwise ends the run in that very
\* step with the error the read raised, which is no timeout, and no poll, clock
\* read or sleep follows it.
C14_OnlyAbsentFileIsNotReady ==
    /\ [][(pc = "poll" /\ pc' # "poll") =>
            \/ /\ fileState = "present"
               /\ pc' \in {"emit", "poll_check"}
               /\ exc' = NoExc
            \/ /\ fileState = "absent"
               /\ pc' = "poll_check"
               /\ exc' = NoExc
               /\ response' = response
               /\ exitCode' = NoExit
            \/ /\ fileState = "denied"
               /\ pc' = "done"
               /\ exc'.type = "PermissionError"
               /\ exc'.msg = "[Errno 13] Permission denied: '/tmp/fallout-cli-out.txt'"
               /\ hist'.raisedIn = "wait"
               /\ exitCode' = 1
               /\ log' = Append(log, "w_poll")]_vars
    /\ []((hist.raisedIn = "wait" /\ ~WaitTimedOut) =>
            /\ pc = "done"
            /\ exc.type = "PermissionError"
            /\ log[Len(log)] = "w_poll"
            /\ exitCode = 1
            /\ stderr = <<"error: " \o exc.msg>>)
    /\ [](WaitTimedOut => log[Len(log)] = "w_clock")

\* A poll has failed on a file closed to the client, after an earlier poll
\* and a sleep, with time left before the deadline.
C14_Witness ==
    /\ hist.raisedIn = "wait"
    /\ exc.type = "PermissionError"
    /\ InLog("w_sleep")
    /\ clock < deadline

\* The lines the pipe's reader gets from what this invocation wrote.
RECURSIVE LinesSeen(_)
LinesSeen(payloads) ==
    IF Len(payloads) = 0 THEN <<>>
    ELSE Lines(Head(payloads), <<>>) \o LinesSeen(Tail(payloads))

\* C15: one send_command call writes to the pipe at most once; the reader gets
\* exactly one line from a call that succeeds and nothing from a call that
\* ends in TimedOut or in a fatal open error.
C15_ReaderSeesOneLineOrNothing ==
    /\ Count("s_write") <= 1
    /\ Len(hist.delivered) = Count("s_write")
    /\ InLog("s_write") => Len(LinesSeen(hist.delivered)) = 1
    /\ (SendTimedOut \/ InLog("s_open_fatal")) => hist.delivered = <<>>

\* C16: send_command opens the pipe successfully at most once; it holds the
\* descriptor exactly from that open until the write has succeeded or failed,
\* and holds none once it has returned or raised, on whichever path: success,
\* timeout, fatal open error, failed write.
C16_HandleScopedToSend ==
    /\ Count("s_open_ok") <= 1
    /\ fdOpen <=> pc = "write"
    /\ fdOpen => log[Len(log)] = "s_open_ok"
    /\ pc \in {"wait_entry", "poll", "poll_check", "poll_sleep", "emit", "done"}
           => ~fdOpen
    /\ hist.raisedIn = "send" =>
           /\ ~fdOpen
           /\ exc.type = "BrokenPipeError" <=> InLog("s_open_ok")

\* The write has failed on an open descriptor, and the descriptor is closed.
C16_Witness ==
    /\ hist.raisedIn = "send"
    /\ exc.type = "BrokenPipeError"
    /\ InLog("s_open_ok")
    /\ InLog("s_sleep")
    /\ ~fdOpen

\* C17: with a clock that advances during every sleep, every invocation ends:
\* main returns or raises, whatever the environment does meanwhile.
C17_EveryInvocationEnds == <>(pc = "done")

\* Both loops have gone round: the opens were retried, the file was rewritten
\* with content that matched no poll, and the wait has ended in TimedOut.
C17_Witness ==
    /\ WaitTimedOut
    /\ InLog("s_sleep")
    /\ InLog("w_sleep")
    /\ hist.changed
    /\ fileState = "present"

\* C18: previous is bound once, by the baseline read, to the text of the file
\* as it is then, the empty text when there is no file; that read is the
\* first I/O step of the invocation, before send_command is entered and any
\* open of the pipe, and it is never repeated; no step of the client changes
\* the output file.
C18_BaselineReadOnceBeforeSend ==
    /\ [][previous' # previous =>
            /\ pc = "baseline"
            /\ previous = NoText
            /\ fileState # "denied"
            /\ previous' = IF fileState = "absent" THEN <<>> ELSE Decode(fileBytes)
            /\ log' = <<"read_out">>]_vars
    /\ [][(fileBytes' # fileBytes \/ fileState' # fileState) =>
            (log' = log /\ UNCHANGED clientVars)]_vars
    /\ [](/\ Count("read_out") <= 1
          /\ log # <<>> => log[1] = "read_out"
          /\ InLog("s_clock") => previous # NoText)

\* A response is returned at a later poll against the empty baseline of an
\* absent file, after the file was changed more than once.
C18_Witness ==
    /\ exitCode = 0
    /\ previous = <<>>
    /\ Count("w_poll") >= 2
    /\ hist.polled
    /\ hist.respWriter = "mine"
    /\ hist.foreign

\* C19: the wait's steps come in the order poll, deadline check, sleep: a
\* sleep follows a poll and a check and is followed by a poll, a timeout is
\* raised by the check that directly follows a poll, so after at least one
\* poll and with no sleep in between; and a poll that reads matching content
\* returns it wherever the clock stands.
C19_PollThenCheckThenSleep ==
    /\ [](\A i \in 1..Len(log) :
            /\ log[i] = "w_sleep" =>
                 /\ i > 2
                 /\ log[i - 1] = "w_clock"
                 /\ log[i - 2] = "w_poll"
                 /\ i < Len(log) => log[i + 1] = "w_poll"
            /\ (log[i] = "w_poll" /\ i < Len(log)) =>
                 log[i + 1] \in {"w_clock", "stdout"}
            /\ log[i] = "w_poll" => log[i - 1] \in {"w_clock", "w_sleep"})
    /\ [](WaitTimedOut =>
            /\ Count("w_poll") >= 1
            /\ log[Len(log)] = "w_clock"
            /\ log[Len(log) - 1] = "w_poll"
            /\ response = NoText)
    /\ [][(/\ pc = "poll"
           /\ pc' # "poll"
           /\ fileState = "present"
           /\ Decode(fileBytes) # previous
           /\ Contains(Marker(command), Decode(fileBytes)))
          => (pc' = "emit" /\ response' = Decode(fileBytes) /\ exc' = NoExc)]_vars

\* The poll after a sleep of exactly 50 ms returns matching content although
\* the deadline passed during the sleep.
C19_Witness ==
    /\ pc = "emit"
    /\ log[Len(log) - 1] = "w_sleep"
    /\ hist.exact
    /\ clock > deadline

====
